---------------------------- MODULE Spec2Model ----------------------------
(***************************************************************************)
(* A model of the configuration loader of src/common/Config/Config.cpp:    *)
(* the line parser (ParseFile), the table merge (AddKey), the load entry   *)
(* points (LoadInitial, LoadAdditionalFile), the typed accessors           *)
(* (GetOption) and the key enumeration (GetKeysByString).                  *)
(*                                                                         *)
(* A std::string is a sequence of one-character strings.  Positions are    *)
(* 0-based as in C++; npos is the value std::string::find returns when     *)
(* nothing is found.                                                       *)
(***************************************************************************)
EXTENDS Integers, Sequences, FiniteSets, TLC

(***************************************************************************)
(* Bounds of the model.                                                    *)
(***************************************************************************)
\* longest line of the one-line files of the first-load specification
MaxLineLen == 5
\* most lines of a file assembled from the line catalogue
MaxLines == 2

(***************************************************************************)
(* Strings.                                                                *)
(***************************************************************************)
npos == -1

SetMin(S) == CHOOSE x \in S : \A y \in S : x <= y

SetMax(S) == CHOOSE x \in S : \A y \in S : y <= x

\* std::string::find(c) / find_first_of(c): 0-based position of the first c
Find(s, c) ==
    LET hits == {i \in 1..Len(s) : s[i] = c}
    IN  IF hits = {} THEN npos ELSE SetMin(hits) - 1

\* std::string::substr(pos, count)
Substr(s, pos, count) ==
    SubSeq(s, pos + 1, IF pos + count > Len(s) THEN Len(s) ELSE pos + count)

\* std::string::substr(pos, npos)
SubstrFrom(s, pos) == SubSeq(s, pos + 1, Len(s))

IsSpace(c) == c = " "

\* Warhead::String::Trim: leading and trailing whitespace removed
Trim(s) ==
    LET keep == {i \in 1..Len(s) : ~IsSpace(s[i])}
    IN  IF keep = {} THEN << >> ELSE SubSeq(s, SetMin(keep), SetMax(keep))

\* a variant that strips a quote only at either end of the value
RemoveQuotesSurrounding(s) ==
    LET a == IF Len(s) > 0 /\ s[1] = "\"" THEN 2 ELSE 1
        b == IF Len(s) > 0 /\ s[Len(s)] = "\"" THEN Len(s) - 1 ELSE Len(s)
    IN  SubSeq(s, a, b)

\* value.erase(std::remove(value.begin(), value.end(), '"'), value.end())
RemoveQuotes(s) == SelectSeq(s, LAMBDA c : c # "\"")

(***************************************************************************)
(* Maps (std::unordered_map<std::string, std::string>).                    *)
(***************************************************************************)
EmptyMap == [k \in {} |-> << >>]

Contains(m, k) == k \in DOMAIN m

\* unordered_map::emplace: inserts only when the key is absent
Emplace(m, k, v) ==
    IF k \in DOMAIN m THEN m
    ELSE [x \in DOMAIN m \cup {k} |-> IF x = k THEN v ELSE m[x]]

\* unordered_map::erase(key)
Erase(m, k) == [x \in DOMAIN m \ {k} |-> m[x]]

(***************************************************************************)
(* AddKey.                                                                 *)
(***************************************************************************)
\* a variant that forgets the erase, so that emplace keeps the old value
AddKeyNoErase(options, optionName, optionKey, replace) ==
    Emplace(options, optionName, optionKey)

AddKey(options, optionName, optionKey, replace) ==
    IF Contains(options, optionName)
    THEN IF ~replace
         THEN options
         ELSE Emplace(Erase(options, optionName), optionName, optionKey)
    ELSE Emplace(options, optionName, optionKey)

(***************************************************************************)
(* ParseFile: one line.                                                    *)
(***************************************************************************)
\* auto entry = Trim(line.substr(0, equal_pos)); auto value = Trim(line.substr(
\* equal_pos + 1, npos)); value.erase(std::remove(..., '"'), value.end());
SplitAt(line, equal_pos) ==
    IF equal_pos = npos \/ equal_pos = Len(line)
    THEN [kind |-> "malformed", entry |-> << >>, value |-> << >>]
    ELSE [kind |-> "entry",
          entry |-> Trim(Substr(line, 0, equal_pos)),
          value |-> RemoveQuotes(Trim(SubstrFrom(line, equal_pos + 1)))]

\* found = line.find_first_of('#'); if (found != npos) line = line.substr(0, found);
TruncateAt(line, found) == IF found # npos THEN Substr(line, 0, found) ELSE line

\* the line after the inline comment is cut off, split at its first '='
SplitLine(line) == SplitAt(line, Find(line, "="))

\* the loop body from the trimmed line on: "skip" for an empty line, a comment
\* or a section, "malformed" for a line with no usable '=', "entry" otherwise
ParseTrimmed(line) ==
    IF line = << >> THEN [kind |-> "skip", entry |-> << >>, value |-> << >>]
    ELSE IF line[1] = "#" \/ line[1] = "[" THEN [kind |-> "skip", entry |-> << >>, value |-> << >>]
    ELSE SplitLine(TruncateAt(line, Find(line, "#")))

\* line = Trim(line, in.getloc()), and the rest of the loop body up to the
\* duplicate check
ParseLine(raw) == ParseTrimmed(Trim(raw))

\* the lambda IsDuplicateOption of ParseFile
IsDuplicateOption(fileConfigs, confOption) == Contains(fileConfigs, confOption)

\* a variant without the duplicate check that assigns fileConfigs[entry],
\* so that the last occurrence of a key wins
AddParsedLastWins(acc, p) ==
    IF p.kind # "entry" THEN acc
    ELSE [acc EXCEPT !.fileConfigs = Emplace(Erase(@, p.entry), p.entry, p.value),
                     !.count = @ + 1]

\* if (IsDuplicateOption(entry)) continue; fileConfigs.emplace(entry, value); count++;
AddParsed(acc, p) ==
    IF p.kind # "entry" THEN acc
    ELSE IF IsDuplicateOption(acc.fileConfigs, p.entry) THEN acc
    ELSE [acc EXCEPT !.fileConfigs = Emplace(@, p.entry, p.value),
                     !.count = @ + 1]

\* the loop body of ParseFile after the line was read without error
ParseStep(acc, raw) == AddParsed(acc, ParseLine(raw))

(***************************************************************************)
(* ParseFile: the whole file.                                              *)
(*                                                                         *)
(* A file is what std::ifstream makes of a path: whether it opens, the     *)
(* lines std::getline yields, and the number of the getline call that      *)
(* fails with an error other than end-of-stream (0: none does).            *)
(***************************************************************************)
NewAcc == [err |-> "none", count |-> 0, lineNumber |-> 0, fileConfigs |-> EmptyMap]

RECURSIVE ParseLoop(_, _, _)
\* while (in.good()) { lineNumber++; getline; throw on a read error; ... }
ParseLoop(file, i, acc) ==
    IF i > Len(file.lines) THEN acc
    ELSE IF file.failAt = i THEN [acc EXCEPT !.err = "read", !.lineNumber = i]
    ELSE ParseLoop(file, i + 1, [ParseStep(acc, file.lines[i]) EXCEPT !.lineNumber = i])

\* if (!count) throw ConfigException("... Empty file ...")
CheckCount(acc) ==
    IF acc.err = "none" /\ acc.count = 0 THEN [acc EXCEPT !.err = "empty"] ELSE acc

\* ParseFile up to the merge: the exception it throws ("none": it does not),
\* and the file-local mapping at that point
ParseLines(file) ==
    IF ~file.opens THEN [NewAcc EXCEPT !.err = "open"]
    ELSE CheckCount(ParseLoop(file, 1, NewAcc))

RECURSIVE AddKeys(_, _, _)
\* for (auto const& [entry, key] : fileConfigs) AddKey(entry, key);
AddKeys(options, fileConfigs, todo) ==
    IF todo = {} THEN options
    ELSE AddKeys(AddKey(options, CHOOSE k \in todo : TRUE,
                        fileConfigs[CHOOSE k \in todo : TRUE], TRUE),
                 fileConfigs, todo \ {CHOOSE k \in todo : TRUE})

\* a variant that merges each entry as soon as its line is parsed, so that
\* the entries read before an exception are already in the table
MergeEarly(options, acc) ==
    [threw |-> acc.err, parsed |-> acc,
     options |-> AddKeys(options, acc.fileConfigs, DOMAIN acc.fileConfigs)]

\* the end of ParseFile: the keys are added only if nothing was thrown
Merge(options, acc) ==
    IF acc.err # "none" THEN [threw |-> acc.err, parsed |-> acc, options |-> options]
    ELSE [threw |-> "none", parsed |-> acc,
          options |-> AddKeys(options, acc.fileConfigs, DOMAIN acc.fileConfigs)]

\* ParseFile: the exception thrown, the table it leaves, and (for the record
\* of the call) what the loop made of the file
ParseFile(options, file) == Merge(options, ParseLines(file))

\* try { ...; return true; } catch (const std::exception& e) { ... } return false;
Caught(r) == [ok |-> r.threw = "none", options |-> r.options, parsed |-> r.parsed]

\* LoadFile
LoadFile(options, file) == Caught(ParseFile(options, file))

(***************************************************************************)
(* Warhead::StringTo<T> and the accessors.                                 *)
(***************************************************************************)
Digits == {"0", "1", "2", "3", "4", "5", "6", "7", "8", "9"}

DigitValue(c) ==
    CASE c = "0" -> 0 [] c = "1" -> 1 [] c = "2" -> 2 [] c = "3" -> 3
      [] c = "4" -> 4 [] c = "5" -> 5 [] c = "6" -> 6 [] c = "7" -> 7
      [] c = "8" -> 8 [] c = "9" -> 9

RECURSIVE Decimal(_)
Decimal(s) ==
    IF s = << >> THEN 0
    ELSE 10 * Decimal(SubSeq(s, 1, Len(s) - 1)) + DigitValue(s[Len(s)])

Types == {"string", "bool", "uint8", "uint16"}

TypeMax(T) == IF T = "uint8" THEN 2^8 - 1 ELSE 2^16 - 1

None == [has |-> FALSE]

Some(v) == [has |-> TRUE, val |-> v]

\* Warhead::StringTo<T>: the value the whole text denotes, if it denotes one
StringTo(T, s) ==
    IF T = "bool"
    THEN IF s = <<"1">> \/ s = <<"t", "r", "u", "e">> THEN Some(TRUE)
         ELSE IF s = <<"0">> \/ s = <<"f", "a", "l", "s", "e">> THEN Some(FALSE)
         ELSE None
    ELSE IF s # << >> /\ (\A i \in 1..Len(s) : s[i] \in Digits) /\ Decimal(s) <= TypeMax(T)
         THEN Some(Decimal(s))
         ELSE None

\* GetValueDefault<T>, and its specialization for std::string
GetValueDefault(options, T, name, def) ==
    IF ~Contains(options, name) THEN def
    ELSE IF T = "string" THEN options[name]
    ELSE LET value == StringTo(T, options[name])
         IN  IF ~value.has THEN def ELSE value.val

\* a variant of GetOption<bool> that answers false for a bad value
GetOptionBadIsFalse(options, T, name, def) ==
    IF T = "bool"
    THEN LET val == GetValueDefault(options, "string", name, IF def THEN <<"1">> ELSE <<"0">>)
             boolVal == StringTo("bool", val)
         IN  IF ~boolVal.has THEN FALSE ELSE boolVal.val
    ELSE GetValueDefault(options, T, name, def)

\* GetOption<T>, and its specialization for bool
GetOption(options, T, name, def) ==
    IF T = "bool"
    THEN LET val == GetValueDefault(options, "string", name, IF def THEN <<"1">> ELSE <<"0">>)
             boolVal == StringTo("bool", val)
         IN  IF ~boolVal.has THEN def ELSE boolVal.val
    ELSE GetValueDefault(options, T, name, def)

(***************************************************************************)
(* GetKeysByString.                                                        *)
(***************************************************************************)
\* std::string::compare(pos, len, str): 0 exactly when the len characters of
\* s from pos on are str (the sign of a nonzero result is not used)
Compare(s, pos, len, str) == IF Substr(s, pos, len) = str THEN 0 ELSE 1

\* a variant that looks for the text anywhere in the option name
MatchesAnywhere(optionName, name) ==
    \E p \in 0..Len(optionName) : Compare(optionName, p, Len(name), name) = 0

\* !optionName.compare(0, name.length(), name)
Matches(optionName, name) == Compare(optionName, 0, Len(name), name) = 0

\* the orders in which the table may be iterated
Orders(S) == {o \in [1..Cardinality(S) -> S] : \A i, j \in DOMAIN o : o[i] = o[j] => i = j}

\* the loop of GetKeysByString over the table iterated in the given order
KeysByString(order, name) == SelectSeq(order, LAMBDA optionName : Matches(optionName, name))

(***************************************************************************)
(* The load entry points.                                                  *)
(***************************************************************************)
\* _configOptions.clear()
Clear(options) == EmptyMap

\* a variant of LoadInitial without the clear
DoLoadInitialNoClear(options, file) == LoadFile(options, file)

\* ConfigMgr::LoadInitial under the lock: the result and the table it leaves
DoLoadInitial(options, file) == LoadFile(Clear(options), file)

\* ConfigMgr::LoadAdditionalFile under the lock
DoLoadAdditionalFile(options, file) == LoadFile(options, file)

(***************************************************************************)
(* The inputs.                                                             *)
(***************************************************************************)
SeqsUpTo(S, n) == UNION {[1..k -> S] : k \in 0..n}

\* the lines the files of the sequential and the concurrent specification
\* are assembled from:  a=1   a = "x"   ab=0 #c   b=300   #c
Catalogue ==
    { <<"a", "=", "1">>,
      <<"a", " ", "=", " ", "\"", "x", "\"">>,
      <<"a", "b", "=", "0", " ", "#", "c">>,
      <<"b", "=", "3", "0", "0">>,
      <<"#", "c">> }

\* a path that cannot be opened
NoSuchFile == [opens |-> FALSE, lines |-> << >>, failAt |-> 0]

ReadableFile(ls) == [opens |-> TRUE, lines |-> ls, failAt |-> 0]

\* every file of at most MaxLines catalogue lines, read without error or
\* with a read error at one of its lines
CatalogueFiles ==
    UNION { {[opens |-> TRUE, lines |-> ls, failAt |-> e] : e \in 0..Len(ls)} :
            ls \in SeqsUpTo(Catalogue, MaxLines) }

Files == CatalogueFiles \cup {NoSuchFile}

\* the characters of the lines of the first-load specification
Alphabet == {"a", "1", " ", "=", "#", "[", "\""}

\* the example file of the specification's section 8
ExampleFile ==
    ReadableFile(<<
      <<"#", " ", "c", "o", "m", "m", "e", "n", "t">>,
      <<"[", "S", "e", "c", "t", "i", "o", "n", "]">>,
      <<"P", "o", "r", "t", " ", "=", " ", "8", "0", "8", "5">>,
      <<"N", "a", "m", "e", " ", "=", " ", "\"", "M", "y", "S", "e", "r", "v", "e", "r", "\"",
        " ", " ", " ", "#", " ", "t", "r", "a", "i", "l", "i", "n", "g">>,
      <<"P", "o", "r", "t", " ", "=", " ", "9", "0", "0", "0">> >>)

\* the files of the first-load specification: every one-line file of at most
\* MaxLineLen characters, the catalogue files, and the example
FirstFiles ==
    {ReadableFile(<<l>>) : l \in SeqsUpTo(Alphabet, MaxLineLen)}
      \cup Files \cup {ExampleFile}

NoInput == [opens |-> FALSE, lines |-> << >>, failAt |-> -1]

\* the option names asked for: the catalogue's keys and one no file defines
Names == { <<"a">>, <<"a", "b">>, <<"b">>, <<"z">> }

\* the prefixes asked for
Prefixes == { << >>, <<"a">>, <<"a", "b">>, <<"b">>, <<"a", "b", "c">>, <<"z">> }

Defaults(T) ==
    CASE T = "string" -> { <<"d">> }
      [] T = "bool" -> BOOLEAN
      [] OTHER -> {7}

(***************************************************************************)
(* The state.                                                              *)
(***************************************************************************)
VARIABLES
    configOptions,  \* _configOptions, the live table
    call,           \* the last operation called, with what it was given
    ret,            \* what that operation returned
    before,         \* the table when that operation was called
    latest,         \* per key, its value in the last successfully loaded file defining it
    input,          \* first-load specification: the file the first load is given
    lock,           \* _configLock: the thread that holds it, or "free"
    pc,             \* concurrent specification: where each thread is
    local,          \* concurrent specification: each thread's arguments and locals
    stable          \* concurrent specification: the table when the last load
                    \* released the lock

seqVars == <<call, ret, before, latest>>

concVars == <<lock, pc, local, stable>>

vars == <<configOptions, call, ret, before, latest, input, lock, pc, local, stable>>

Threads == {"t1", "t2", "t3"}

\* a thread that is in none of the operations
Idle == [op |-> "none"]

\* what a load records of the file it was given: the outcome of parsing it
Summary(acc) == [err |-> acc.err, count |-> acc.count, fileConfigs |-> acc.fileConfigs]

Override(m, n) == [k \in DOMAIN m \cup DOMAIN n |-> IF k \in DOMAIN n THEN n[k] ELSE m[k]]

InitTable ==
    /\ configOptions = EmptyMap
    /\ call = [op |-> "none"]
    /\ ret = FALSE
    /\ before = EmptyMap
    /\ latest = EmptyMap

InitThreads ==
    /\ lock = "free"
    /\ pc = [t \in Threads |-> "idle"]
    /\ local = [t \in Threads |-> Idle]
    /\ stable = EmptyMap

Init == InitTable /\ InitThreads /\ input = NoInput

Loaded(op, r) ==
    /\ configOptions' = r.options
    /\ ret' = r.ok
    /\ call' = [op |-> op, parsed |-> Summary(r.parsed)]
    /\ before' = configOptions
    /\ latest' = IF r.ok THEN Override(latest, r.parsed.fileConfigs) ELSE latest

LoadInitial(file) == Loaded("LoadInitial", DoLoadInitial(configOptions, file))

LoadAdditionalFile(file) ==
    Loaded("LoadAdditionalFile", DoLoadAdditionalFile(configOptions, file))

GetOptionCall(T, name, def) ==
    /\ ret' = GetOption(configOptions, T, name, def)
    /\ call' = [op |-> "GetOption", T |-> T, name |-> name, def |-> def]
    /\ before' = configOptions
    /\ UNCHANGED <<configOptions, latest>>

GetKeysByString(name) ==
    \E order \in Orders(DOMAIN configOptions) :
        /\ ret' = KeysByString(order, name)
        /\ call' = [op |-> "GetKeysByString", name |-> name]
        /\ before' = configOptions
        /\ UNCHANGED <<configOptions, latest>>

Next ==
    \/ \E file \in Files : LoadInitial(file) /\ UNCHANGED <<input, concVars>>
    \/ \E file \in Files : LoadAdditionalFile(file) /\ UNCHANGED <<input, concVars>>
    \/ \E T \in Types, name \in Names : \E def \in Defaults(T) :
          GetOptionCall(T, name, def) /\ UNCHANGED <<input, concVars>>
    \/ \E name \in Prefixes : GetKeysByString(name) /\ UNCHANGED <<input, concVars>>

Spec == Init /\ [][Next]_vars

(***************************************************************************)
(* The first load of a process, for every file of FirstFiles.              *)
(***************************************************************************)
InitFirst == InitTable /\ InitThreads /\ input \in FirstFiles

NextFirst ==
    \/ call.op = "none" /\ LoadInitial(input) /\ UNCHANGED <<input, concVars>>
    \/ call.op = "none" /\ LoadAdditionalFile(input) /\ UNCHANGED <<input, concVars>>

SpecFirst == InitFirst /\ [][NextFirst]_vars

(***************************************************************************)
(* The operations step by step, called from several threads.               *)
(*                                                                         *)
(* LoadInitial, LoadAdditionalFile and GetKeysByString construct a         *)
(* std::lock_guard on _configLock and release it when they return.         *)
(* GetOption (GetValueDefault) reads _configOptions without it.            *)
(***************************************************************************)
\* the files the threads load:  {a=1, ab=0}   {a=x}   {b=300, a=x}   one with
\* no entry, one that fails at its second line, and one that does not open
ConcFiles ==
    { ReadableFile(<< <<"a", "=", "1">>, <<"a", "b", "=", "0", " ", "#", "c">> >>),
      ReadableFile(<< <<"a", " ", "=", " ", "\"", "x", "\"">> >>),
      ReadableFile(<< <<"b", "=", "3", "0", "0">>, <<"a", " ", "=", " ", "\"", "x", "\"">> >>),
      ReadableFile(<< <<"#", "c">> >>),
      [opens |-> TRUE, lines |-> << <<"a", "=", "1">>, <<"b", "=", "3", "0", "0">> >>, failAt |-> 2],
      NoSuchFile }

ConcNames == { <<"a">>, <<"a", "b">> }

ConcPrefixes == { << >>, <<"a">>, <<"a", "b">> }

\* a variant of the lock that never makes a thread wait
CanLockAlways(holder) == TRUE

\* std::lock_guard<std::mutex> lock(_configLock) returns once no thread holds it
CanLock(holder) == holder = "free"

\* where a thread is between the lock and the return of a load
LoadPcs == {"clear", "parse", "merge", "emplace", "return"}

\* where a thread is between the lock and the return of GetKeysByString
ScanPcs == {"scan", "scanned"}

Loading(t) == pc[t] \in LoadPcs

\* LoadInitial, line 176: the lock is taken
CallLoadInitial(t) ==
    /\ pc[t] = "idle"
    /\ CanLock(lock)
    /\ lock' = t
    /\ pc' = [pc EXCEPT ![t] = "clear"]
    /\ local' = [local EXCEPT ![t] = [op |-> "LoadInitial"]]
    /\ UNCHANGED <<configOptions, stable>>

\* LoadInitial, line 177
ClearTable(t) ==
    /\ pc[t] = "clear"
    /\ configOptions' = Clear(configOptions)
    /\ pc' = [pc EXCEPT ![t] = "parse"]
    /\ UNCHANGED <<lock, local, stable>>

\* LoadAdditionalFile, line 183: the lock is taken
CallLoadAdditionalFile(t) ==
    /\ pc[t] = "idle"
    /\ CanLock(lock)
    /\ lock' = t
    /\ pc' = [pc EXCEPT ![t] = "parse"]
    /\ local' = [local EXCEPT ![t] = [op |-> "LoadAdditionalFile"]]
    /\ UNCHANGED <<configOptions, stable>>

\* ParseFile up to the merge, which touches only the thread's own fileConfigs
ParseThenMerge(t, acc) ==
    /\ pc[t] = "parse"
    /\ IF acc.err # "none"
       THEN /\ pc' = [pc EXCEPT ![t] = "return"]
            /\ local' = [local EXCEPT ![t] = [op |-> local[t].op, ok |-> FALSE]]
       ELSE /\ pc' = [pc EXCEPT ![t] = "merge"]
            /\ local' = [local EXCEPT ![t] = [op |-> local[t].op,
                                              fileConfigs |-> acc.fileConfigs,
                                              todo |-> DOMAIN acc.fileConfigs]]
    /\ UNCHANGED <<configOptions, lock, stable>>

ParseInput(t) == \E file \in ConcFiles : ParseThenMerge(t, ParseLines(file))

\* the merge loop of ParseFile and AddKey up to its erase (lines 154-155, 59-69)
AddKeyErase(t) ==
    /\ pc[t] = "merge"
    /\ local[t].todo # {}
    /\ \E entry \in local[t].todo :
          /\ configOptions' = IF Contains(configOptions, entry)
                              THEN Erase(configOptions, entry) ELSE configOptions
          /\ local' = [local EXCEPT ![t] = [op |-> local[t].op,
                                            fileConfigs |-> local[t].fileConfigs,
                                            todo |-> local[t].todo,
                                            entry |-> entry]]
    /\ pc' = [pc EXCEPT ![t] = "emplace"]
    /\ UNCHANGED <<lock, stable>>

\* AddKey, line 71
AddKeyEmplace(t) ==
    /\ pc[t] = "emplace"
    /\ configOptions' = Emplace(configOptions, local[t].entry,
                                local[t].fileConfigs[local[t].entry])
    /\ local' = [local EXCEPT ![t] = [op |-> local[t].op,
                                      fileConfigs |-> local[t].fileConfigs,
                                      todo |-> local[t].todo \ {local[t].entry}]]
    /\ pc' = [pc EXCEPT ![t] = "merge"]
    /\ UNCHANGED <<lock, stable>>

\* the merge loop is over: LoadFile returns true
MergeDone(t) ==
    /\ pc[t] = "merge"
    /\ local[t].todo = {}
    /\ pc' = [pc EXCEPT ![t] = "return"]
    /\ local' = [local EXCEPT ![t] = [op |-> local[t].op, ok |-> TRUE]]
    /\ UNCHANGED <<configOptions, lock, stable>>

\* the load returns and its lock_guard releases the lock
ReturnLoad(t) ==
    /\ pc[t] = "return"
    /\ lock' = "free"
    /\ stable' = configOptions
    /\ pc' = [pc EXCEPT ![t] = "idle"]
    /\ local' = [local EXCEPT ![t] = Idle]
    /\ UNCHANGED configOptions

\* GetKeysByString, line 269: the lock is taken
CallGetKeysByString(t, name) ==
    /\ pc[t] = "idle"
    /\ CanLock(lock)
    /\ lock' = t
    /\ pc' = [pc EXCEPT ![t] = "scan"]
    /\ local' = [local EXCEPT ![t] = [op |-> "GetKeysByString", name |-> name]]
    /\ UNCHANGED <<configOptions, stable>>

\* GetKeysByString, lines 271-275
ScanKeys(t) ==
    /\ pc[t] = "scan"
    /\ \E order \in Orders(DOMAIN configOptions) :
          local' = [local EXCEPT ![t] = [op |-> "GetKeysByString", name |-> local[t].name,
                                         keys |-> KeysByString(order, local[t].name)]]
    /\ pc' = [pc EXCEPT ![t] = "scanned"]
    /\ UNCHANGED <<configOptions, lock, stable>>

\* GetKeysByString returns and its lock_guard releases the lock
ReturnKeys(t) ==
    /\ pc[t] = "scanned"
    /\ lock' = "free"
    /\ pc' = [pc EXCEPT ![t] = "idle"]
    /\ local' = [local EXCEPT ![t] = Idle]
    /\ UNCHANGED <<configOptions, stable>>

\* The tables a GetOption may see.  It takes no lock, so a call made while
\* another thread is inside a load races with it: the behaviour is
\* undefined, and the call may see the table as it is at that moment or as
\* it was before the load.
Views(t) ==
    IF \E u \in Threads \ {t} : Loading(u) THEN {configOptions, stable} ELSE {configOptions}

\* GetOption<T> (GetValueDefault, lines 196-220, 226-238, 250-264): no lock
ReadOption(t, T, name, def) ==
    /\ pc[t] = "idle"
    /\ \E view \in Views(t) :
          local' = [local EXCEPT ![t] = [op |-> "GetOption", name |-> name,
                                         value |-> GetOption(view, T, name, def),
                                         raced |-> \E u \in Threads \ {t} : Loading(u)]]
    /\ pc' = [pc EXCEPT ![t] = "got"]
    /\ UNCHANGED <<configOptions, lock, stable>>

ReturnOption(t) ==
    /\ pc[t] = "got"
    /\ pc' = [pc EXCEPT ![t] = "idle"]
    /\ local' = [local EXCEPT ![t] = Idle]
    /\ UNCHANGED <<configOptions, lock, stable>>

OtherVars == <<seqVars, input>>

NextConc ==
    \/ \E t \in Threads : CallLoadInitial(t) /\ UNCHANGED OtherVars
    \/ \E t \in Threads : ClearTable(t) /\ UNCHANGED OtherVars
    \/ \E t \in Threads : CallLoadAdditionalFile(t) /\ UNCHANGED OtherVars
    \/ \E t \in Threads : ParseInput(t) /\ UNCHANGED OtherVars
    \/ \E t \in Threads : AddKeyErase(t) /\ UNCHANGED OtherVars
    \/ \E t \in Threads : AddKeyEmplace(t) /\ UNCHANGED OtherVars
    \/ \E t \in Threads : MergeDone(t) /\ UNCHANGED OtherVars
    \/ \E t \in Threads : ReturnLoad(t) /\ UNCHANGED OtherVars
    \/ \E t \in Threads, name \in ConcPrefixes :
          CallGetKeysByString(t, name) /\ UNCHANGED OtherVars
    \/ \E t \in Threads : ScanKeys(t) /\ UNCHANGED OtherVars
    \/ \E t \in Threads : ReturnKeys(t) /\ UNCHANGED OtherVars
    \/ \E t \in Threads, name \in ConcNames :
          ReadOption(t, "string", name, <<"d">>) /\ UNCHANGED OtherVars
    \/ \E t \in Threads : ReturnOption(t) /\ UNCHANGED OtherVars

SpecConc == Init /\ [][NextConc]_vars

(***************************************************************************)
(* The properties.                                                         *)
(***************************************************************************)
IsLoad == call.op \in {"LoadInitial", "LoadAdditionalFile"}

Range(q) == {q[i] : i \in DOMAIN q}

\* C1: a successful LoadAdditionalFile(B) leaves every key B defines at B's
\* value, every other key of the table as it was, and no further key; and
\* after any sequence of loads each key of the table holds its value from
\* the most recent successfully loaded file that defines it.
C1_LaterLoadWins ==
    /\ \A k \in DOMAIN configOptions :
          k \in DOMAIN latest /\ configOptions[k] = latest[k]
    /\ (call.op = "LoadAdditionalFile" /\ ret = TRUE) =>
          /\ DOMAIN configOptions = DOMAIN before \cup DOMAIN call.parsed.fileConfigs
          /\ \A k \in DOMAIN call.parsed.fileConfigs :
                configOptions[k] = call.parsed.fileConfigs[k]
          /\ \A k \in DOMAIN before \ DOMAIN call.parsed.fileConfigs :
                configOptions[k] = before[k]

\* file B was loaded over a table that gave one of B's keys another value,
\* had a key B does not define, and lacked one of B's keys
C1_Witness ==
    /\ call.op = "LoadAdditionalFile" /\ ret = TRUE
    /\ \E k \in DOMAIN before \cap DOMAIN call.parsed.fileConfigs :
          before[k] # call.parsed.fileConfigs[k] /\ configOptions[k] = call.parsed.fileConfigs[k]
    /\ DOMAIN before \ DOMAIN call.parsed.fileConfigs # {}
    /\ DOMAIN call.parsed.fileConfigs \ DOMAIN before # {}

\* C2: a load of a file that cannot be opened, fails at a line or has no
\* valid entry returns false and merges nothing: after LoadAdditionalFile
\* the table is the table before the call, after LoadInitial it is empty.
C2_FailedLoadMergesNothing ==
    (IsLoad /\ call.parsed.err # "none") =>
        /\ ret = FALSE
        /\ call.op = "LoadAdditionalFile" => configOptions = before
        /\ call.op = "LoadInitial" => configOptions = EmptyMap

\* a read error after an entry was parsed that would have changed the table
C2_Witness ==
    /\ call.op = "LoadAdditionalFile" /\ ret = FALSE
    /\ call.parsed.err = "read" /\ call.parsed.count > 0
    /\ before # EmptyMap
    /\ \E k \in DOMAIN call.parsed.fileConfigs :
          k \in DOMAIN before /\ before[k] # call.parsed.fileConfigs[k]

\* C4: after LoadInitial(F) returns true the table is exactly the mapping
\* parsed from F, whatever it held before.
C4_LoadInitialDiscards ==
    (call.op = "LoadInitial" /\ ret = TRUE) => configOptions = call.parsed.fileConfigs

\* a key of the table before the call that F does not define is gone
C4_Witness ==
    /\ call.op = "LoadInitial" /\ ret = TRUE
    /\ DOMAIN before \ DOMAIN configOptions # {}

\* C5: GetOption<T>(name, def) leaves the table as it was and returns def
\* for an absent name, def for a stored text that does not convert to T, the
\* stored text itself for std::string and the converted value otherwise
\* (true for bool on "1", def for bool on "x").
C5_GetOptionTotal ==
    call.op = "GetOption" =>
        /\ configOptions = before
        /\ call.name \notin DOMAIN configOptions => ret = call.def
        /\ call.name \in DOMAIN configOptions =>
              /\ call.T = "string" => ret = configOptions[call.name]
              /\ call.T # "string" =>
                    ret = IF StringTo(call.T, configOptions[call.name]).has
                          THEN StringTo(call.T, configOptions[call.name]).val
                          ELSE call.def
              /\ (call.T = "bool" /\ configOptions[call.name] = <<"1">>) => ret = TRUE
              /\ (call.T = "bool" /\ configOptions[call.name] = <<"x">>) => ret = call.def
              /\ (call.T = "uint8" /\ configOptions[call.name] = <<"3", "0", "0">>) => ret = call.def
              /\ (call.T = "uint16" /\ configOptions[call.name] = <<"3", "0", "0">>) => ret = 300
        /\ call.T = "bool" => ret \in BOOLEAN
        /\ call.T \in {"uint8", "uint16"} => ret \in 0..TypeMax(call.T)

\* GetOption<bool> with default true on a stored text that is no bool
C5_Witness ==
    /\ call.op = "GetOption" /\ call.T = "bool" /\ call.def = TRUE
    /\ call.name \in DOMAIN configOptions
    /\ configOptions[call.name] = <<"x">>
    /\ ret = TRUE

IsPrefix(p, q) == Len(p) <= Len(q) /\ \A i \in 1..Len(p) : q[i] = p[i]

\* C8: GetKeysByString(prefix) returns each option name of the table that
\* starts with prefix exactly once and no other name, and leaves the table
\* as it was.
C8_KeysByPrefix ==
    call.op = "GetKeysByString" =>
        /\ configOptions = before
        /\ Range(ret) = {k \in DOMAIN configOptions : IsPrefix(call.name, k)}
        /\ \A i, j \in DOMAIN ret : ret[i] = ret[j] => i = j
        /\ call.name = << >> => Range(ret) = DOMAIN configOptions

\* a prefix that one key starts with and another key only contains
C8_Witness ==
    /\ call.op = "GetKeysByString"
    /\ call.name # << >>
    /\ ret # << >>
    /\ \E k \in DOMAIN configOptions \ Range(ret) :
          \E i \in 1..Len(k) : IsPrefix(call.name, SubSeq(k, i, Len(k)))

(***************************************************************************)
(* What the specification says a line and a file denote, stated without    *)
(* the parser: by the places of the first '=' and the first '#'.           *)
(***************************************************************************)
\* 1-based place of the first c in s (Len(s) + 1: there is none)
First(s, c) ==
    IF \E i \in 1..Len(s) : s[i] = c
    THEN CHOOSE i \in 1..Len(s) : s[i] = c /\ \A j \in 1..(i - 1) : s[j] # c
    ELSE Len(s) + 1

RECURSIVE WithoutQuotes(_)
WithoutQuotes(s) ==
    IF s = << >> THEN << >>
    ELSE IF Head(s) = "\"" THEN WithoutQuotes(Tail(s))
    ELSE <<Head(s)>> \o WithoutQuotes(Tail(s))

\* after trimming the line is non-empty and begins with neither '#' nor '['
IsContent(l) == Trim(l) # << >> /\ Trim(l)[1] # "#" /\ Trim(l)[1] # "["

\* a content line that contains '='
HasEqual(l) == IsContent(l) /\ First(Trim(l), "=") <= Len(Trim(l))

\* a content line that contains '=' before any '#'
HasEqualBeforeComment(l) == HasEqual(l) /\ First(Trim(l), "=") < First(Trim(l), "#")

\* trim(text before the first '=')
KeyOf(l) == Trim(SubSeq(Trim(l), 1, First(Trim(l), "=") - 1))

\* the text after the first '=' up to the first '#' that follows it
AfterEqual(t) == SubSeq(t, First(t, "=") + 1, Len(t))

\* trim(that text) with every double quote removed
ValueOf(l) ==
    WithoutQuotes(Trim(SubSeq(AfterEqual(Trim(l)), 1, First(AfterEqual(Trim(l)), "#") - 1)))

\* the lines of a file that contribute, given which lines are well-formed
Contributing(file, WellFormed(_)) == {i \in 1..Len(file.lines) : WellFormed(file.lines[i])}

\* the mapping of a file: each key of a well-formed line, at the value of the
\* first well-formed line with that key
Denoted(file, WellFormed(_)) ==
    [k \in {KeyOf(file.lines[i]) : i \in Contributing(file, WellFormed)} |->
        ValueOf(file.lines[SetMin({i \in Contributing(file, WellFormed) :
                                     KeyOf(file.lines[i]) = k})])]

FirstLoadDone == call.op # "none" /\ input.opens /\ input.failAt = 0

\* the table of the specification's example: {Port: "8085", Name: "MyServer"}
ExampleTable ==
    [k \in {<<"P", "o", "r", "t">>, <<"N", "a", "m", "e">>} |->
        IF k = <<"P", "o", "r", "t">> THEN <<"8", "0", "8", "5">>
        ELSE <<"M", "y", "S", "e", "r", "v", "e", "r">>]

\* C6, as claimed: every content line that contains '=' contributes
\* trim(text before the first '=') -> trim(text after it up to the first '#')
\* without its quotes, unless its key was seen before in the file.
C6_EveryLineWithEqualContributes ==
    (FirstLoadDone /\ Contributing(input, HasEqual) # {}) =>
        ret = TRUE /\ configOptions = Denoted(input, HasEqual)

\* C6, amended: every content line that contains '=' before any '#'
\* contributes that entry unless its key was seen before in the file, no
\* other line contributes, and the example file gives the example table.
C6_LineWithEqualBeforeCommentContributes ==
    /\ (FirstLoadDone /\ Contributing(input, HasEqualBeforeComment) # {}) =>
          ret = TRUE /\ configOptions = Denoted(input, HasEqualBeforeComment)
    /\ (FirstLoadDone /\ input = ExampleFile) => configOptions = ExampleTable

\* a loaded line whose value had spaces around it, a quote and a comment after it
C6_Witness ==
    /\ FirstLoadDone /\ ret = TRUE
    /\ Len(input.lines) = 1
    /\ \E k \in DOMAIN configOptions :
          /\ configOptions[k] # << >>
          /\ Len(k) + Len(configOptions[k]) + 3 <= Len(input.lines[1])
          /\ \E i \in 1..Len(input.lines[1]) : input.lines[1][i] = "\""

\* two content lines of the file with '=' before any '#' have the same key
HasDuplicate(file) ==
    \E i, j \in Contributing(file, HasEqualBeforeComment) :
        i < j /\ KeyOf(file.lines[i]) = KeyOf(file.lines[j])

\* C3: when a key appears on more than one valid line of a file, the load
\* returns true, the key has the value of its first occurrence, and every
\* other key of the file is in the table.
C3_FirstOccurrenceWins ==
    (FirstLoadDone /\ HasDuplicate(input)) =>
        /\ ret = TRUE
        /\ \A i \in Contributing(input, HasEqualBeforeComment) :
              /\ KeyOf(input.lines[i]) \in DOMAIN configOptions
              /\ (\A j \in Contributing(input, HasEqualBeforeComment) :
                     KeyOf(input.lines[j]) = KeyOf(input.lines[i]) => i <= j)
                 => configOptions[KeyOf(input.lines[i])] = ValueOf(input.lines[i])

\* a file with a key given two different values, and another key
C3_Witness ==
    /\ FirstLoadDone /\ ret = TRUE
    /\ \E i, j \in Contributing(input, HasEqualBeforeComment) :
          /\ i < j
          /\ KeyOf(input.lines[i]) = KeyOf(input.lines[j])
          /\ ValueOf(input.lines[i]) # ValueOf(input.lines[j])
          /\ configOptions[KeyOf(input.lines[i])] = ValueOf(input.lines[i])
    /\ Cardinality(DOMAIN configOptions) > 1

\* the line once its inline comment is cut off
Uncommented(l) == SubSeq(Trim(l), 1, First(Trim(l), "#") - 1)

\* a content line with no '=', or whose '=' is its very last character
NoUsableEqual(l) ==
    /\ IsContent(l)
    /\ First(Uncommented(l), "=") >= Len(Uncommented(l))

\* C9: a line with no '=' or whose '=' is its very last character adds no
\* entry: a file of such lines, comments, sections and empty lines leaves
\* the table empty (and so fails as a file with no entry).
C9_MalformedLineSkipped ==
    (FirstLoadDone /\ \A i \in 1..Len(input.lines) :
                         ~IsContent(input.lines[i]) \/ NoUsableEqual(input.lines[i])) =>
        ret = FALSE /\ configOptions = EmptyMap

(***************************************************************************)
(* The properties of the concurrent specification.                         *)
(***************************************************************************)
\* C7: no operation reads the table while another thread is inside
\* LoadInitial or LoadAdditionalFile: no GetOption read is made while a load
\* is between taking and releasing the lock.
C7_NoReadDuringLoad ==
    \A t \in Threads : pc[t] = "got" => ~local[t].raced

\* C10: clear, merge and prefix scan exclude one another: at most one thread
\* is between the lock and the return of LoadInitial, LoadAdditionalFile or
\* GetKeysByString, that thread holds the lock, and every GetKeysByString
\* result is the prefix filter of the table as the last load left it.
C10_ClearMergeScanExclusive ==
    /\ \A t, u \in Threads :
          (pc[t] \in LoadPcs \cup ScanPcs /\ pc[u] \in LoadPcs \cup ScanPcs) => t = u
    /\ \A t \in Threads : pc[t] \in LoadPcs \cup ScanPcs => lock = t
    /\ \A t \in Threads :
          pc[t] = "scanned" =>
              /\ Range(local[t].keys) = {k \in DOMAIN stable : IsPrefix(local[t].name, k)}
              /\ \A i, j \in DOMAIN local[t].keys : local[t].keys[i] = local[t].keys[j] => i = j

\* a scan under the lock has returned some keys of a loaded table, not all
C10_Witness ==
    \E t \in Threads :
        /\ pc[t] = "scanned"
        /\ local[t].name # << >>
        /\ local[t].keys # << >>
        /\ Cardinality(DOMAIN stable) > Len(local[t].keys)

=============================================================================
